---- MODULE Spec2Model ----
(***************************************************************************)
(* A model of src/helper_functions.py: the border-driven table region      *)
(* detector (get_table_ranges) and the indentation-driven hierarchy        *)
(* reconstructor (process_hierarchical_table).                             *)
(*                                                                         *)
(* Texts are sequences of one-character strings, so that lstrip/strip and  *)
(* the leading-space count are computed, not assumed.  A cell value is     *)
(* either None or a text.                                                  *)
(***************************************************************************)
EXTENDS Integers, Sequences, FiniteSets, TLC

VARIABLES
    \* ---- get_table_ranges ----
    sheet,                      \* the styled / populated cells of the sheet
    max_column,                 \* sheet.max_column
    visited,                    \* the cells of the mask that are True
    row_idx, col_idx,           \* the scan position
    is_complex,                 \* the classification flag
    table_ranges,               \* the emitted range strings, in scan order
    simple_table_workbooks,     \* extracted sub-grids classified simple
    complex_table_workbooks,    \* extracted sub-grids classified complex
    pcT,                        \* "scan" | "done" | "IndexError" | "idle"
    \* ---- process_hierarchical_table ----
    ws,                         \* the complex sub-grid handed to the reconstructor
    col_headers, row_headers,
    num_leading_space_per_level,
    processed_table,            \* the nested dict, as a map from paths to values
    nodes,                      \* the running Path
    row,                        \* index of the next data row of ws
    result,                     \* the returned tree
    pcH                         \* "start" | "loop" | "done" | "TypeError" | "idle"

varsT == <<sheet, max_column, visited, row_idx, col_idx, is_complex, table_ranges,
           simple_table_workbooks, complex_table_workbooks, pcT>>
varsH == <<ws, col_headers, row_headers, num_leading_space_per_level,
           processed_table, nodes, row, result, pcH>>
vars == <<varsT, varsH>>

(***************************************************************************)
(* Values                                                                  *)
(***************************************************************************)
None == <<"<None>">>            \* Python's None as a cell value
StyleNone == "<None>"           \* Python's None as a border style
Sp == " "

Min(S) == CHOOSE x \in S : \A y \in S : x <= y

\* serialize_value: str(cell.value); str(None) is the text "None"
serialize_value(value) == IF value = None THEN <<"N", "o", "n", "e">> ELSE value

\* is_empty_cell
is_empty_cell(cell) == cell.value = None

(***************************************************************************)
(* Border classifier                                                       *)
(***************************************************************************)
has_bottom_right_border(cell) ==
    /\ cell.border.bottom # StyleNone /\ cell.border.bottom = "medium"
    /\ cell.border.right # StyleNone /\ cell.border.right = "medium"

has_top_right_border(cell) ==
    /\ cell.border.top # StyleNone /\ cell.border.top = "medium"
    /\ cell.border.right # StyleNone /\ cell.border.right = "medium"

has_upper_left_border(cell) ==
    /\ cell.border.top # StyleNone /\ cell.border.top = "medium"
    /\ cell.border.left # StyleNone /\ cell.border.left = "medium"

(***************************************************************************)
(* The sheet                                                               *)
(***************************************************************************)
NoBorder == [top |-> StyleNone, left |-> StyleNone, right |-> StyleNone, bottom |-> StyleNone]
BlankCell == [value |-> None, border |-> NoBorder]

\* sheet.cell(row=r, column=c): a cell the sheet does not hold is created blank
SheetCell(r, c) == IF <<r, c>> \in DOMAIN sheet THEN sheet[<<r, c>>] ELSE BlankCell

\* openpyxl's column letters and cell.coordinate
Letters == <<"A", "B", "C", "D", "E", "F">>
get_column_letter(c) == Letters[c]
Coordinate(r, c) == [column_letter |-> get_column_letter(c), row |-> r]
\* the range string f"{start.coordinate}:{end.coordinate}"
RangeString(sr, sc, er, ec) == [start |-> Coordinate(sr, sc), end |-> Coordinate(er, ec)]

(***************************************************************************)
(* get_table_ranges                                                        *)
(***************************************************************************)
MAX_ROW_IDX == 100
FIRST_SCAN_ROW == 45

\* visited = [[False for _ in range(sheet.max_column)] for _ in range(MAX_ROW_IDX)]
InMask(r, c) == 0 <= r /\ r < MAX_ROW_IDX /\ 0 <= c /\ c < max_column

\* while row_idx < MAX_ROW_IDX
RowLimit == MAX_ROW_IDX
\* (mutant) the column loop runs through the last column
ColLimitInclusive == max_column + 1
\* while col_idx < sheet.max_column
ColLimit == max_column

\* if (visited[row_idx][col_idx] or row_idx < 45): continue
Skipped(r, c) == <<r, c>> \in visited \/ r < FIRST_SCAN_ROW

\* the inner while loop stops skipping at (r, k): the read of the mask is out
\* of range, or the cell is unvisited and opens a region
StopsAt(r, k) ==
    \/ ~InMask(r, k)
    \/ ~Skipped(r, k) /\ has_upper_left_border(SheetCell(r, k))

\* The inner while loop on row r from column c on: the first column at which
\* it stops skipping; 0 when the loop runs out.
RowStop(r, c) ==
    IF \E k \in c..(ColLimit - 1) : StopsAt(r, k)
    THEN Min({k \in c..(ColLimit - 1) : StopsAt(r, k)})
    ELSE 0

\* The two while loops from position (r, c) on: the position of the next cell
\* that opens a region, or the end of the scan, or the position at which the
\* read of the mask is out of range.
ScanStop(r, c, sr) ==
    [kind |-> IF InMask(sr, RowStop(sr, IF sr = r THEN c ELSE 1)) THEN "corner" ELSE "IndexError",
     row |-> sr, col |-> RowStop(sr, IF sr = r THEN c ELSE 1)]
ScanFrom(r, c) ==
    IF \E k \in r..(RowLimit - 1) : RowStop(k, IF k = r THEN c ELSE 1) # 0
    THEN ScanStop(r, c, Min({k \in r..(RowLimit - 1) : RowStop(k, IF k = r THEN c ELSE 1) # 0}))
    ELSE [kind |-> "end", row |-> IF r < RowLimit THEN RowLimit ELSE r, col |-> 1]

\* (mutant) without a closing corner the region runs to the last scanned column
FindEndColFailOpen(start_row, start_col) ==
    IF \E c \in start_col..(max_column - 1) : has_top_right_border(SheetCell(start_row, c))
    THEN Min({c \in start_col..(max_column - 1) :
                 has_top_right_border(SheetCell(start_row, c))})
    ELSE max_column - 1

\* the first column from start_col on, left of sheet.max_column, whose cell closes the top edge
FindEndCol(start_row, start_col) ==
    IF \E c \in start_col..(max_column - 1) : has_top_right_border(SheetCell(start_row, c))
    THEN Min({c \in start_col..(max_column - 1) :
                 has_top_right_border(SheetCell(start_row, c))})
    ELSE start_col

\* the first row from start_row on, below MAX_ROW_IDX, whose cell closes the right edge
FindEndRow(start_row, end_col) ==
    IF \E r \in start_row..(MAX_ROW_IDX - 1) : has_bottom_right_border(SheetCell(r, end_col))
    THEN Min({r \in start_row..(MAX_ROW_IDX - 1) :
                 has_bottom_right_border(SheetCell(r, end_col))})
    ELSE start_row

\* mark_cells_visited: the cells it writes, and the workbook it returns
Rectangle(sr, sc, er, ec) == (sr..er) \X (sc..ec)
ExtractWorkbook(sr, sc, er, ec) ==
    [p \in (1..(er - sr + 1)) \X (1..(ec - sc + 1)) |->
        SheetCell(p[1] + sr - 1, p[2] + sc - 1).value]

\* is_complex = False at the top of each row; True when the corner cell is empty
FlagAtCorner(r, c) ==
    LET atRowStart == IF r > row_idx THEN FALSE ELSE is_complex
    IN  IF is_empty_cell(SheetCell(r, c)) THEN TRUE ELSE atRowStart

\* (mutant) the flag is not reset after a complex region
FlagKept(flag) == flag

\* is_complex after the workbook was appended
FlagAfterAppend(flag) == IF flag THEN FALSE ELSE flag

\* One region: the scan runs to the next unvisited upper-left corner, closes
\* the region, emits its range, marks its cells and files its workbook.
DetectTable ==
    /\ pcT = "scan"
    /\ \E s \in {ScanFrom(row_idx, col_idx)} :
       /\ s.kind = "corner"
       /\ \E ec \in {FindEndCol(s.row, s.col)} :
          \E er \in {FindEndRow(s.row, ec)} :
          \E flag \in {FlagAtCorner(s.row, s.col)} :
             /\ table_ranges' = Append(table_ranges, RangeString(s.row, s.col, er, ec))
             /\ row_idx' = s.row
             /\ IF \E p \in Rectangle(s.row, s.col, er, ec) : ~InMask(p[1], p[2])
                THEN /\ pcT' = "IndexError"
                     /\ col_idx' = s.col
                     /\ UNCHANGED <<visited, is_complex, simple_table_workbooks,
                                    complex_table_workbooks>>
                ELSE /\ visited' = visited \cup Rectangle(s.row, s.col, er, ec)
                     /\ IF flag
                        THEN /\ complex_table_workbooks' =
                                   Append(complex_table_workbooks,
                                          ExtractWorkbook(s.row, s.col, er, ec))
                             /\ UNCHANGED simple_table_workbooks
                        ELSE /\ simple_table_workbooks' =
                                   Append(simple_table_workbooks,
                                          ExtractWorkbook(s.row, s.col, er, ec))
                             /\ UNCHANGED complex_table_workbooks
                     /\ is_complex' = FlagAfterAppend(flag)
                     /\ col_idx' = s.col + 1
                     /\ pcT' = "scan"
    /\ UNCHANGED <<sheet, max_column, varsH>>

\* No corner is left: both loops run out and the three lists are returned
\* (or a read of the mask fails on the way).
FinishScan ==
    /\ pcT = "scan"
    /\ \E s \in {ScanFrom(row_idx, col_idx)} :
       /\ s.kind # "corner"
       /\ pcT' = IF s.kind = "end" THEN "done" ELSE "IndexError"
       /\ row_idx' = s.row
       /\ col_idx' = s.col
       /\ is_complex' = FALSE
    /\ UNCHANGED <<sheet, max_column, visited, table_ranges,
                   simple_table_workbooks, complex_table_workbooks, varsH>>

(***************************************************************************)
(* Text helpers                                                            *)
(***************************************************************************)
RECURSIVE lstrip(_)
lstrip(s) == IF s = <<>> THEN s ELSE IF Head(s) = Sp THEN lstrip(Tail(s)) ELSE s

RECURSIVE rstrip(_)
rstrip(s) == IF s = <<>> THEN s
             ELSE IF s[Len(s)] = Sp THEN rstrip(SubSeq(s, 1, Len(s) - 1)) ELSE s

strip(s) == rstrip(lstrip(s))

\* len(text) - len(text.lstrip())
LeadingSpaces(s) == Len(s) - Len(lstrip(s))

\* seq[:n] for n >= 0
Take(seq, n) == SubSeq(seq, 1, IF n < Len(seq) THEN n ELSE Len(seq))

(***************************************************************************)
(* calculate_num_leading_space_per_level                                   *)
(***************************************************************************)
calculate_num_leading_space_per_level(headers) ==
    LET diffs == {i \in 1..(Len(headers) - 1) :
                     LeadingSpaces(headers[i + 1]) # LeadingSpaces(headers[i])}
    IN  IF diffs = {} THEN 0
        ELSE LET i == Min(diffs)
             IN  LeadingSpaces(headers[i + 1]) - LeadingSpaces(headers[i])

(***************************************************************************)
(* The nested dict.  A dict of dicts is kept as a map from paths (the keys *)
(* from the root down) to values: Dict for an entry that is itself a dict, *)
(* a text for an entry that is a str.                                      *)
(***************************************************************************)
Dict == <<"<dict>">>
EmptyTable == [p \in {} |-> Dict]

IsPrefix(p, q) == Len(p) <= Len(q) /\ SubSeq(q, 1, Len(p)) = p

\* the object reached at path p is a dict (the root always is)
IsDictAt(t, p) == p = <<>> \/ (p \in DOMAIN t /\ t[p] = Dict)

\* dict(zip(col_headers, [serialize_value(d) for d in data_cells])): on equal keys the last pair wins
ZipLen(hdrs, data_cells) == IF Len(hdrs) < Len(data_cells) THEN Len(hdrs) ELSE Len(data_cells)
LeafKeys(hdrs, data_cells) == {hdrs[i] : i \in 1..ZipLen(hdrs, data_cells)}
LeafValue(hdrs, data_cells, k) ==
    LET last == CHOOSE i \in 1..ZipLen(hdrs, data_cells) :
                    /\ hdrs[i] = k
                    /\ \A j \in 1..ZipLen(hdrs, data_cells) : hdrs[j] = k => j <= i
    IN  serialize_value(data_cells[last])

\* (mutant) the leaf is merged into the dict already at the path
AssignLeafMerged(t, p, hdrs, data_cells) ==
    LET keys == LeafKeys(hdrs, data_cells)
        dom  == DOMAIN t \cup {p} \cup {Append(p, k) : k \in keys}
    IN  [q \in dom |-> IF q = p THEN Dict
                       ELSE IF Len(q) = Len(p) + 1 /\ IsPrefix(p, q) /\ q[Len(q)] \in keys
                            THEN LeafValue(hdrs, data_cells, q[Len(q)])
                       ELSE t[q]]

\* current_level[nodes[-1]] = dict(zip(...)): whatever was at the path goes, children included
AssignLeaf(t, p, hdrs, data_cells) ==
    LET keep == {q \in DOMAIN t : ~IsPrefix(p, q)}
        keys == LeafKeys(hdrs, data_cells)
        dom  == keep \cup {p} \cup {Append(p, k) : k \in keys}
    IN  [q \in dom |-> IF q = p THEN Dict
                       ELSE IF q \in keep THEN t[q]
                       ELSE LeafValue(hdrs, data_cells, q[Len(q)])]

\* the loop over nodes[:-1]: cur is the path of current_level, k the next node
RECURSIVE Descend(_, _, _, _)
Descend(t, path, cur, k) ==
    IF k > Len(path) - 1 THEN [table |-> t, at |-> cur, error |-> FALSE]
    ELSE IF ~IsDictAt(t, cur)
         \* current_level is a str: "in" is a substring test, then indexing or
         \* item assignment on the str raises TypeError
         THEN [table |-> t, at |-> cur, error |-> TRUE]
         ELSE LET p == Append(cur, path[k])
                  t1 == IF p \in DOMAIN t THEN t
                        ELSE [q \in DOMAIN t \cup {p} |-> IF q = p THEN Dict ELSE t[q]]
              IN  Descend(t1, path, p, k + 1)

add_data(t, path, hdrs, data_cells) ==
    LET d == Descend(t, path, <<>>, 1)
    IN  IF d.error \/ ~IsDictAt(d.table, d.at)
        THEN [table |-> d.table, error |-> TRUE]
        ELSE [table |-> AssignLeaf(d.table, path, hdrs, data_cells), error |-> FALSE]

\* remove_none_key_value_pairs: drops the top-level pairs whose key and value are both None
remove_none_key_value_pairs(t) ==
    LET gone == {q \in DOMAIN t : Len(q) = 1 /\ q[1] = None /\ t[q] = None}
    IN  [q \in DOMAIN t \ gone |-> t[q]]

(***************************************************************************)
(* process_hierarchical_table                                              *)
(***************************************************************************)
\* (mutant) every row is attached, category rows included
HasDataAlways(data_cells) == TRUE

\* any([c for c in data_cells if c.value is not None])
HasData(data_cells) == \E i \in 1..Len(data_cells) : data_cells[i] # None

\* level = len(text) - len(text.lstrip())   # num_leading_space_per_level
RowLevel(text, unit) == LeadingSpaces(text)

\* nodes = nodes[:level]; nodes.append(label)
NextNodes(path, text, unit) == Append(Take(path, RowLevel(text, unit)), strip(text))

\* lines 115-127: headers, indentation unit, empty tree
Setup ==
    /\ pcH = "start"
    /\ col_headers' = [i \in 1..Len(ws.header) |-> serialize_value(ws.header[i])]
    /\ row_headers' = [i \in 1..Len(ws.rows) |-> serialize_value(ws.rows[i].label)]
    /\ LET n == calculate_num_leading_space_per_level(
                    [i \in 1..Len(ws.rows) |-> serialize_value(ws.rows[i].label)])
       IN  num_leading_space_per_level' = IF n = 0 THEN 1 ELSE n
    /\ processed_table' = EmptyTable
    /\ nodes' = <<>>
    /\ row' = 1
    /\ pcH' = "loop"
    /\ UNCHANGED <<ws, result, varsT>>

\* one iteration of the loop over the data rows
ProcessRow ==
    /\ pcH = "loop"
    /\ row <= Len(ws.rows)
    /\ LET text == serialize_value(ws.rows[row].label)
           data_cells == ws.rows[row].data
           path == NextNodes(nodes, text, num_leading_space_per_level)
       IN  /\ nodes' = path
           /\ IF HasData(data_cells)
              THEN LET r == add_data(processed_table, path, col_headers, data_cells)
                   IN  /\ processed_table' = r.table
                       /\ pcH' = IF r.error THEN "TypeError" ELSE "loop"
              ELSE UNCHANGED <<processed_table, pcH>>
    /\ row' = row + 1
    /\ UNCHANGED <<ws, col_headers, row_headers, num_leading_space_per_level, result, varsT>>

\* return remove_none_key_value_pairs(processed_table)
Return ==
    /\ pcH = "loop"
    /\ row > Len(ws.rows)
    /\ result' = remove_none_key_value_pairs(processed_table)
    /\ pcH' = "done"
    /\ UNCHANGED <<ws, col_headers, row_headers, num_leading_space_per_level,
                   processed_table, nodes, row, varsT>>

(***************************************************************************)
(* Inputs                                                                  *)
(***************************************************************************)
MaxStyled == 3          \* at most this many styled cells in a sheet
MaxRows == 3            \* at most this many data rows in a complex sub-grid

\* the sheets: a window of two adjacent rows (straddling the first scanned
\* row, or the last two scanned rows), max_column wide
WindowTops == {FIRST_SCAN_ROW - 1, MAX_ROW_IDX - 2}
Widths == {2, 3}
Border(t, l, r, b) == [top |-> t, left |-> l, right |-> r, bottom |-> b]
CellChoices ==
    { [value |-> None,    border |-> Border("medium", "medium", StyleNone, StyleNone)],
      [value |-> <<"x">>, border |-> Border("medium", "medium", StyleNone, StyleNone)],
      [value |-> <<"x">>, border |-> Border("medium", "medium", "medium", "medium")],
      [value |-> None,    border |-> Border("medium", "thin", "medium", StyleNone)],
      [value |-> None,    border |-> Border("thin", StyleNone, "medium", "medium")] }
Sheets(top, width) ==
    UNION { [S -> CellChoices] :
              S \in {T \in SUBSET ({top, top + 1} \X (1..width)) : Cardinality(T) <= MaxStyled} }

\* the complex sub-grids: a header row and up to MaxRows indented data rows
Spaces(n) == [i \in 1..n |-> Sp]
Indents == {0, 1, 3}
Names == {<<"A">>, <<"J">>}
HeaderRows == { <<<<"J">>, <<"K">>>>, <<<<"J">>, <<"J">>>> }
DataRows == { <<None, None>>, <<<<"1">>, None>>, <<<<"1">>, <<"2">>>> }
RowChoices == { [label |-> Spaces(n) \o nm, data |-> d] : n \in Indents, nm \in Names, d \in DataRows }
SubGrids == { [header |-> h, rows |-> rs] :
                h \in HeaderRows, rs \in UNION { [1..n -> RowChoices] : n \in 0..MaxRows } }

IdleT ==
    /\ sheet = <<>> /\ max_column = 1 /\ visited = {} /\ row_idx = 1 /\ col_idx = 1
    /\ is_complex = FALSE /\ table_ranges = <<>> /\ simple_table_workbooks = <<>>
    /\ complex_table_workbooks = <<>> /\ pcT = "idle"
IdleH ==
    /\ ws = [header |-> <<>>, rows |-> <<>>] /\ col_headers = <<>> /\ row_headers = <<>>
    /\ num_leading_space_per_level = 0 /\ processed_table = EmptyTable /\ nodes = <<>>
    /\ row = 1 /\ result = EmptyTable /\ pcH = "idle"

\* get_table_ranges(sheet) is entered
InitRanges ==
    /\ max_column \in Widths
    /\ \E top \in WindowTops : sheet \in Sheets(top, max_column)
    /\ visited = {}
    /\ row_idx = 1 /\ col_idx = 1
    /\ is_complex = FALSE
    /\ table_ranges = <<>>
    /\ simple_table_workbooks = <<>>
    /\ complex_table_workbooks = <<>>
    /\ pcT = "scan"
    /\ IdleH

\* process_hierarchical_table(ws) is entered
InitHier ==
    /\ ws \in SubGrids
    /\ col_headers = <<>> /\ row_headers = <<>>
    /\ num_leading_space_per_level = 0
    /\ processed_table = EmptyTable
    /\ nodes = <<>>
    /\ row = 1
    /\ result = EmptyTable
    /\ pcH = "start"
    /\ IdleT

NextRanges == DetectTable \/ FinishScan
NextHier == Setup \/ ProcessRow \/ Return

SpecRanges == InitRanges /\ [][NextRanges]_vars
SpecHier == InitHier /\ [][NextHier]_vars

(***************************************************************************)
(* Properties of get_table_ranges (under SpecRanges)                       *)
(***************************************************************************)
ColumnIndex(letter) == CHOOSE c \in 1..Len(Letters) : Letters[c] = letter
Rect(i) == [sr |-> table_ranges[i].start.row,
            sc |-> ColumnIndex(table_ranges[i].start.column_letter),
            er |-> table_ranges[i].end.row,
            ec |-> ColumnIndex(table_ranges[i].end.column_letter)]
RectCells(i) == Rectangle(Rect(i).sr, Rect(i).sc, Rect(i).er, Rect(i).ec)
UpperLefts == {p \in DOMAIN sheet : has_upper_left_border(sheet[p])}
TopRights == {p \in DOMAIN sheet : has_top_right_border(sheet[p])}
BottomRights == {p \in DOMAIN sheet : has_bottom_right_border(sheet[p])}

\* C1: the rectangles of any two distinct emitted regions share no cell.
C1_RegionsNeverOverlap ==
    \A i, j \in 1..Len(table_ranges) : i < j => RectCells(i) \cap RectCells(j) = {}

\* C2: a sheet whose only marker cells are the three corners of one rectangle
\* in the scanned rows yields exactly that rectangle's range, and every cell of
\* the rectangle is visited.
C2_SingleRectangleFound ==
    pcT = "done" =>
        \A a \in UpperLefts, b \in TopRights, c \in BottomRights :
            ( /\ UpperLefts = {a} /\ TopRights = {b} /\ BottomRights = {c}
              /\ a[1] = b[1] /\ b[2] = c[2] /\ a[2] <= b[2] /\ b[1] <= c[1]
              /\ FIRST_SCAN_ROW <= a[1] /\ c[1] < MAX_ROW_IDX )
            => /\ table_ranges = <<RangeString(a[1], a[2], c[1], c[2])>>
               /\ Rectangle(a[1], a[2], c[1], c[2]) \subseteq visited

C4_Counts ==
    Len(table_ranges) = Len(simple_table_workbooks) + Len(complex_table_workbooks)
C4_Step ==
    Len(table_ranges') = Len(table_ranges) + 1 =>
        LET n == Len(table_ranges')
            r == table_ranges'[n]
            sr == r.start.row
            sc == ColumnIndex(r.start.column_letter)
            wb == ExtractWorkbook(sr, sc, r.end.row, ColumnIndex(r.end.column_letter))
        IN  IF SheetCell(sr, sc).value = None
            THEN /\ complex_table_workbooks' = Append(complex_table_workbooks, wb)
                 /\ simple_table_workbooks' = simple_table_workbooks
            ELSE /\ simple_table_workbooks' = Append(simple_table_workbooks, wb)
                 /\ complex_table_workbooks' = complex_table_workbooks

\* C4: every emitted region's sub-grid is appended to exactly one list, the
\* Complex list iff the region's top-left cell is empty (whatever was detected
\* before), and the ranges number the Simple plus the Complex sub-grids.
C4_ClassifiedByCornerOnly == []C4_Counts /\ [][C4_Step]_vars

\* a simple region was emitted right after a complex one on the same row
C4_Witness ==
    /\ Len(table_ranges) = 2
    /\ Rect(1).sr = Rect(2).sr
    /\ SheetCell(Rect(1).sr, Rect(1).sc).value = None
    /\ SheetCell(Rect(2).sr, Rect(2).sc).value # None
    /\ Len(complex_table_workbooks) = 1
    /\ Len(simple_table_workbooks) = 1

\* C10: no read or write of the mask is out of range, every visited cell lies
\* inside the mask, and every emitted region satisfies
\* 45 <= startRow <= endRow < MAX_ROW_IDX and 1 <= startCol <= endCol < max_column.
C10_IndicesInRange ==
    /\ pcT # "IndexError"
    /\ \A p \in visited : InMask(p[1], p[2])
    /\ \A i \in 1..Len(table_ranges) :
          /\ FIRST_SCAN_ROW <= Rect(i).sr /\ Rect(i).sr <= Rect(i).er /\ Rect(i).er < MAX_ROW_IDX
          /\ 1 <= Rect(i).sc /\ Rect(i).sc <= Rect(i).ec /\ Rect(i).ec < max_column

\* a region reaching the last scanned row and the last scanned column was marked
C10_Witness ==
    /\ pcT = "done"
    /\ \E i \in 1..Len(table_ranges) :
          /\ Rect(i).er = MAX_ROW_IDX - 1
          /\ Rect(i).ec = max_column - 1
          /\ Rect(i).sr < Rect(i).er
          /\ RectCells(i) \subseteq visited

(***************************************************************************)
(* Properties of process_hierarchical_table (under SpecHier)               *)
(***************************************************************************)
RowStep == pcH = "loop" /\ row <= Len(ws.rows) /\ row' = row + 1
RowText(i) == serialize_value(ws.rows[i].label)
AllEmpty(data_cells) == \A i \in 1..Len(data_cells) : data_cells[i] = None
HeaderTexts == {col_headers[i] : i \in 1..Len(col_headers)}
Children(t, p) == {q \in DOMAIN t : Len(q) = Len(p) + 1 /\ IsPrefix(p, q)}

\* C5: a row's level is its leading-space count divided by the inferred unit,
\* and its Path is the previous Path truncated to that level plus its label.
C5_LevelIsSpacesOverUnit ==
    [][ (RowStep /\ num_leading_space_per_level > 0) =>
            nodes' = Append(Take(nodes, LeadingSpaces(RowText(row))
                                          \div num_leading_space_per_level),
                            strip(RowText(row))) ]_vars

\* C6: a row writes a Leaf iff one of its data cells is non-empty; the Leaf is
\* at the row's Path and maps header i to the text of data cell i, for every i.
C6_LeafIffData ==
    [][ RowStep =>
          IF AllEmpty(ws.rows[row].data)
          THEN processed_table' = processed_table
          ELSE /\ pcH' = "loop"
               /\ nodes' \in DOMAIN processed_table'
               /\ \A i \in 1..Len(col_headers) :
                     /\ Append(nodes', col_headers[i]) \in DOMAIN processed_table'
                     /\ processed_table'[Append(nodes', col_headers[i])]
                            = serialize_value(ws.rows[row].data[i]) ]_vars

RECURSIVE PathOfRow(_)
PathOfRow(i) ==
    IF i = 0 THEN <<>>
    ELSE Append(Take(PathOfRow(i - 1), LeadingSpaces(RowText(i))), strip(RowText(i)))

C8_NeverRaises == pcH # "TypeError"

\* C9 (as claimed): no node holds both child nodes and leaf data.
C9_BranchOrLeaf ==
    \A p \in {<<>>} \cup {q \in DOMAIN processed_table : processed_table[q] = Dict} :
        ~ /\ \E q \in Children(processed_table, p) : processed_table[q] = Dict
          /\ \E q \in Children(processed_table, p) : processed_table[q] # Dict

C9_WellFormed ==
    \A p \in DOMAIN processed_table :
        /\ Len(p) >= 1
        /\ Len(p) > 1 => IsDictAt(processed_table, Take(p, Len(p) - 1))
        /\ processed_table[p] # Dict => p[Len(p)] \in HeaderTexts
C9_LeafStep ==
    (RowStep /\ ~AllEmpty(ws.rows[row].data) /\ pcH' = "loop") =>
        /\ IsDictAt(processed_table', nodes')
        /\ {q \in DOMAIN processed_table' : IsPrefix(nodes', q) /\ q # nodes'}
               = {Append(nodes', h) : h \in HeaderTexts}
        /\ \A h \in HeaderTexts : processed_table'[Append(nodes', h)] # Dict
        /\ \A q \in DOMAIN processed_table :
               ~IsPrefix(nodes', q) =>
                   q \in DOMAIN processed_table' /\ processed_table'[q] = processed_table[q]

\* C9 (amended): every entry of the tree is a node or a serialized text keyed
\* by a column header, under a node; a data row's entry is written as a pure
\* Leaf over the column headers that replaces whatever was at its Path (a
\* Branch with children included) and leaves the rest of the tree in place, so
\* a node may come to hold leaf data and child nodes together.
C9_LeafReplacesNode == []C9_WellFormed /\ [][C9_LeafStep]_vars

\* a node holds leaf data and a child node together
C9_Witness ==
    \E p \in DOMAIN processed_table :
        /\ processed_table[p] = Dict
        /\ \E q \in Children(processed_table, p) : processed_table[q] = Dict
        /\ \E q \in Children(processed_table, p) : processed_table[q] # Dict

====
